---- MODULE Spec2Model ----
(***************************************************************************)
(* Product catalog service (src/main.py): the startup Seeder               *)
(* (seed_products_on_startup) and the catalog query (list_products with    *)
(* serialize_product and the ProductOut response model), over a document   *)
(* store reached through db, create_document and get_documents.            *)
(*                                                                         *)
(* Text is a sequence of one-character strings.  A Python value is a       *)
(* tagged record: [t |-> "null"] is None, [t |-> "str", s |-> chars],      *)
(* [t |-> "int" / "float", c |-> hundredths], [t |-> "bool", b |-> ...],   *)
(* [t |-> "oid", n |-> k] a store-assigned identifier.  A document is a    *)
(* function from field names to values; an absent key is absent from its   *)
(* DOMAIN.                                                                 *)
(***************************************************************************)
EXTENDS Integers, Sequences, FiniteSets, TLC

VARIABLES
    db,         \* the store handle imported from database: "None" or "handle"
    store,      \* the documents of collection "product", in insertion order
    pc,         \* per Seeder run: "idle", "loop", "returned" or "raised"
    idx,        \* per Seeder run: index of the seed item the loop is at
    count,      \* per Seeder run: the local count ("unset", "raised" or a number)
    validated,  \* per Seeder run: seed items handed to ProductSchema, in order
    submitted,  \* per Seeder run: seed items handed to create_document, in order
    skipped,    \* per Seeder run: seed items whose validation or insertion failed
    inserted,   \* per Seeder run: number of documents the run added to the store
    req,        \* the last list_products request: [q, category, limit] or "none"
    filt,       \* the filter the last list_products built
    docs,       \* what get_documents yielded to the last list_products
    getCalls,   \* number of get_documents calls made so far
    response    \* the last HTTP response of GET /api/products

vars == <<db, store, pc, idx, count, validated, submitted, skipped, inserted,
          req, filt, docs, getCalls, response>>

seederVars == <<pc, idx, count, validated, submitted, skipped, inserted>>

queryVars == <<req, filt, docs, getCalls, response>>

(***************************************************************************)
(* Python values                                                           *)
(***************************************************************************)
None == [t |-> "null"]

Str(chars) == [t |-> "str", s |-> chars]

IntValue(n) == [t |-> "int", c |-> 100 * n]

FloatValue(hundredths) == [t |-> "float", c |-> hundredths]

BoolValue(b) == [t |-> "bool", b |-> b]

Oid(k) == [t |-> "oid", n |-> k]

\* raised exceptions are values too, so that an operator can yield one
Raise(exc) == [t |-> "raise", exc |-> exc]

IsRaise(v) == "t" \in DOMAIN v /\ v.t = "raise"

\* dict.get(key) and dict.get(key, default)
Get(doc, key) == IF key \in DOMAIN doc THEN doc[key] ELSE None

GetDefault(doc, key, default) == IF key \in DOMAIN doc THEN doc[key] ELSE default

(***************************************************************************)
(* The seed set (sample_products)                                          *)
(***************************************************************************)
Title1 ==
    <<"E","c","h","o","W","a","v","e"," ","S","m","a","r","t"," ","S","p","e","a","k","e","r">>

Description1 ==
    <<"H","a","n","d","s","-","f","r","e","e"," ","v","o","i","c","e"," ","c","o","n","t","r","o","l"," ","w","i","t","h"," ","i","m","m","e","r","s","i","v","e"," ","3","6","0","deg"," ","s","o","u","n","d",".">>

Category1 ==
    <<"E","l","e","c","t","r","o","n","i","c","s">>

Image1 ==
    <<"h","t","t","p","s",":","/","/","i","m","a","g","e","s",".","u","n","s","p","l","a","s","h",".","c","o","m","/","p","h","o","t","o","-","1","5","1","8","4","4","1","9","0","2","1","1","3","-","c","1","d","4","f","5","a","9","c","f","e","0","?","q","=","8","0","&","w","=","1","2","0","0","&","a","u","t","o","=","f","o","r","m","a","t","&","f","i","t","=","c","r","o","p">>

Title2 ==
    <<"A","e","r","o","F","l","e","x"," ","R","u","n","n","i","n","g"," ","S","h","o","e","s">>

Description2 ==
    <<"B","r","e","a","t","h","a","b","l","e",","," ","u","l","t","r","a","-","l","i","g","h","t"," ","p","e","r","f","o","r","m","a","n","c","e"," ","r","u","n","n","i","n","g"," ","s","h","o","e","s",".">>

Category2 ==
    <<"F","a","s","h","i","o","n">>

Image2 ==
    <<"h","t","t","p","s",":","/","/","i","m","a","g","e","s",".","u","n","s","p","l","a","s","h",".","c","o","m","/","p","h","o","t","o","-","1","5","4","2","2","9","1","0","2","6","-","7","e","e","c","2","6","4","c","2","7","f","f","?","q","=","8","0","&","w","=","1","2","0","0","&","a","u","t","o","=","f","o","r","m","a","t","&","f","i","t","=","c","r","o","p">>

Title3 ==
    <<"L","u","m","a","G","l","o","w"," ","D","e","s","k"," ","L","a","m","p">>

Description3 ==
    <<"M","i","n","i","m","a","l"," ","L","E","D"," ","l","a","m","p"," ","w","i","t","h"," ","w","i","r","e","l","e","s","s"," ","c","h","a","r","g","i","n","g"," ","b","a","s","e",".">>

Category3 ==
    <<"H","o","m","e">>

Image3 ==
    <<"h","t","t","p","s",":","/","/","i","m","a","g","e","s",".","u","n","s","p","l","a","s","h",".","c","o","m","/","p","h","o","t","o","-","1","5","0","7","4","7","3","8","8","5","7","6","5","-","e","6","e","d","0","5","7","f","7","8","2","c","?","q","=","8","0","&","w","=","1","2","0","0","&","a","u","t","o","=","f","o","r","m","a","t","&","f","i","t","=","c","r","o","p">>

Title4 ==
    <<"N","i","m","b","u","s"," ","P","r","o"," ","B","a","c","k","p","a","c","k">>

Description4 ==
    <<"W","a","t","e","r","-","r","e","s","i","s","t","a","n","t"," ","t","e","c","h"," ","b","a","c","k","p","a","c","k"," ","w","i","t","h"," ","1","6"," ","l","a","p","t","o","p"," ","s","l","e","e","v","e",".">>

Category4 ==
    <<"A","c","c","e","s","s","o","r","i","e","s">>

Image4 ==
    <<"h","t","t","p","s",":","/","/","i","m","a","g","e","s",".","u","n","s","p","l","a","s","h",".","c","o","m","/","p","h","o","t","o","-","1","5","4","7","9","4","9","0","0","3","-","9","7","9","2","a","1","8","a","2","6","0","1","?","q","=","8","0","&","w","=","1","2","0","0","&","a","u","t","o","=","f","o","r","m","a","t","&","f","i","t","=","c","r","o","p">>

Title5 ==
    <<"B","r","e","w","C","r","a","f","t"," ","C","o","f","f","e","e"," ","M","a","k","e","r">>

Description5 ==
    <<"P","r","o","g","r","a","m","m","a","b","l","e"," ","p","o","u","r","-","o","v","e","r"," ","s","t","y","l","e"," ","c","o","f","f","e","e"," ","m","a","k","e","r",".">>

Category5 ==
    <<"K","i","t","c","h","e","n">>

Image5 ==
    <<"h","t","t","p","s",":","/","/","i","m","a","g","e","s",".","u","n","s","p","l","a","s","h",".","c","o","m","/","p","h","o","t","o","-","1","5","0","9","4","6","0","9","1","3","8","9","9","-","3","5","e","6","c","0","a","b","f","9","b","0","?","q","=","8","0","&","w","=","1","2","0","0","&","a","u","t","o","=","f","o","r","m","a","t","&","f","i","t","=","c","r","o","p">>

NumSeeds == 5

sample_products ==
    << [title |-> Str(Title1), description |-> Str(Description1), price |-> FloatValue(7999),
        category |-> Str(Category1), in_stock |-> BoolValue(TRUE), image |-> Str(Image1),
        rating |-> FloatValue(460)],
       [title |-> Str(Title2), description |-> Str(Description2), price |-> FloatValue(12900),
        category |-> Str(Category2), in_stock |-> BoolValue(TRUE), image |-> Str(Image2),
        rating |-> FloatValue(440)],
       [title |-> Str(Title3), description |-> Str(Description3), price |-> FloatValue(5950),
        category |-> Str(Category3), in_stock |-> BoolValue(TRUE), image |-> Str(Image3),
        rating |-> FloatValue(470)],
       [title |-> Str(Title4), description |-> Str(Description4), price |-> FloatValue(9800),
        category |-> Str(Category4), in_stock |-> BoolValue(TRUE), image |-> Str(Image4),
        rating |-> FloatValue(450)],
       [title |-> Str(Title5), description |-> Str(Description5), price |-> FloatValue(14999),
        category |-> Str(Category5), in_stock |-> BoolValue(TRUE), image |-> Str(Image5),
        rating |-> FloatValue(430)] >>

\* {k: p[k] for k in ["title", "description", "price", "category", "in_stock"] if k in p}
SchemaFields == {"title", "description", "price", "category", "in_stock"}

SchemaInput(p) == [k \in SchemaFields \cap DOMAIN p |-> p[k]]

\* ProductSchema(**fields).model_dump(): the schema either rejects the fields or
\* returns them as a record (schemas.py is a collaborator; its verdict is an input)
ProductSchema(fields, accepts) ==
    IF accepts THEN fields ELSE Raise("ValidationError")

\* {**prod.model_dump(), "image": p.get("image"), "rating": p.get("rating")}
SeedRecord(dump, p) ==
    [k \in DOMAIN dump \cup {"image", "rating"} |->
        IF k = "image" THEN Get(p, "image")
        ELSE IF k = "rating" THEN Get(p, "rating")
        ELSE dump[k]]

(***************************************************************************)
(* The store collaborator                                                  *)
(***************************************************************************)
\* db["product"].count_documents({})
count_documents(coll) == Len(coll)

\* create_document("product", record): the store assigns the identifier
create_document(coll, record) ==
    Append(coll, [k \in DOMAIN record \cup {"_id"} |->
                     IF k = "_id" THEN Oid(Len(coll) + 1) ELSE record[k]])

(***************************************************************************)
(* Seeder: seed_products_on_startup, one run per process startup           *)
(***************************************************************************)
Runs == {1, 2}

Finished(r) == pc[r] \in {"returned", "raised"}

\* a loop that stops one item short
AfterItemShort(r) == IF idx[r] >= NumSeeds - 1 THEN "returned" ELSE "loop"

\* for p in sample_products (line 144): where the run is once the item at idx[r]
\* has been handled
AfterItem(r) == IF idx[r] = NumSeeds THEN "returned" ELSE "loop"

\* a failing item that ends the loop: the exception reaches the outer handler
AfterFailureAbort(r) == "returned"

\* except Exception: continue (lines 151-152)
AfterFailure(r) == AfterItem(r)

\* a test that lets a run seed a collection that already holds documents
ShouldSeedNonNegative(n) == n >= 0

\* a test that is off by one
ShouldSeedAtMostOne(n) == n <= 1

\* if count == 0 (line 96)
ShouldSeed(n) == n = 0

\* lines 92-96: the db check, the count and the emptiness test.
\* countFails: count_documents throws, caught by the outer except (line 153).
SeedStart(r, countFails) ==
    /\ pc[r] = "idle"
    /\ IF db = "None"
       THEN /\ pc' = [pc EXCEPT ![r] = "returned"]
            /\ UNCHANGED count
       ELSE IF countFails
       THEN /\ pc' = [pc EXCEPT ![r] = "returned"]
            /\ count' = [count EXCEPT ![r] = [state |-> "raised"]]
       ELSE /\ count' = [count EXCEPT ![r] = [state |-> "read", n |-> count_documents(store)]]
            /\ pc' = [pc EXCEPT ![r] =
                        IF ShouldSeed(count_documents(store)) THEN "loop"
                        ELSE "returned"]
    /\ UNCHANGED <<db, store, idx, validated, submitted, skipped, inserted>>
    /\ UNCHANGED queryVars

\* lines 144-152: one iteration of the loop over sample_products.
\* accepts: ProductSchema accepts the item; insertFails: create_document throws.
SeedItem(r, accepts, insertFails) ==
    /\ pc[r] = "loop"
    /\ LET i    == idx[r]
           p    == sample_products[i]
           prod == ProductSchema(SchemaInput(p), accepts)
       IN  /\ validated' = [validated EXCEPT ![r] = Append(@, i)]
           /\ IF IsRaise(prod)
              THEN /\ skipped' = [skipped EXCEPT ![r] = @ \cup {i}]
                   /\ pc' = [pc EXCEPT ![r] = AfterFailure(r)]
                   /\ UNCHANGED <<store, submitted, inserted>>
              ELSE /\ submitted' = [submitted EXCEPT ![r] = Append(@, i)]
                   /\ IF insertFails
                      THEN /\ skipped' = [skipped EXCEPT ![r] = @ \cup {i}]
                           /\ pc' = [pc EXCEPT ![r] = AfterFailure(r)]
                           /\ UNCHANGED <<store, inserted>>
                      ELSE /\ store' = create_document(store, SeedRecord(prod, p))
                           /\ inserted' = [inserted EXCEPT ![r] = @ + 1]
                           /\ pc' = [pc EXCEPT ![r] = AfterItem(r)]
                           /\ UNCHANGED skipped
    /\ idx' = [idx EXCEPT ![r] = IF @ = NumSeeds THEN @ ELSE @ + 1]
    /\ UNCHANGED <<db, count>>
    /\ UNCHANGED queryVars

\* a startup that begins once every earlier startup has finished
NoRunInProgress == \A o \in Runs : pc[o] \in {"idle", "returned", "raised"}

EarlierFinished(r) == \A o \in Runs : o < r => Finished(o)

SeqStart(r, countFails) ==
    /\ NoRunInProgress
    /\ EarlierFinished(r)
    /\ SeedStart(r, countFails)

(***************************************************************************)
(* Text                                                                    *)
(***************************************************************************)
UpperChars ==
    <<"A","B","C","D","E","F","G","H","I","J","K","L","M",
      "N","O","P","Q","R","S","T","U","V","W","X","Y","Z">>

LowerChars ==
    <<"a","b","c","d","e","f","g","h","i","j","k","l","m",
      "n","o","p","q","r","s","t","u","v","w","x","y","z">>

DigitChars == <<"0","1","2","3","4","5","6","7","8","9">>

Lower(ch) ==
    IF \E i \in DOMAIN UpperChars : UpperChars[i] = ch
    THEN LowerChars[CHOOSE i \in DOMAIN UpperChars : UpperChars[i] = ch]
    ELSE ch

LowerText(chars) == [i \in DOMAIN chars |-> Lower(chars[i])]

RECURSIVE Decimal(_)
Decimal(n) ==
    IF n < 10 THEN <<DigitChars[n + 1]>>
    ELSE Decimal(n \div 10) \o <<DigitChars[(n % 10) + 1]>>

\* literal, case-insensitive substring and equality (what the prose calls "contains"
\* and "equals"); the reference the patterns are compared with
ContainsText(text, part) ==
    \E k \in 1..(Len(text) - Len(part) + 1) :
        \A j \in 1..Len(part) : Lower(text[k + j - 1]) = Lower(part[j])

EqualsText(a, b) == LowerText(a) = LowerText(b)

(***************************************************************************)
(* $regex with $options "i", as the store evaluates it.  The patterns the  *)
(* model builds use: "^" first and "$" last as anchors, "." for any one    *)
(* character, every other character for itself.                            *)
(***************************************************************************)
Metachars == {".", "^", "$"}

HasMetachar(chars) == \E i \in DOMAIN chars : chars[i] \in Metachars

CharMatches(pch, ch) == pch = "." \/ Lower(pch) = Lower(ch)

RegexSearch(pattern, text) ==
    LET atStart == Len(pattern) > 0 /\ pattern[1] = "^"
        atEnd   == Len(pattern) > 0 /\ pattern[Len(pattern)] = "$"
        first   == IF atStart THEN 2 ELSE 1
        last    == IF atEnd THEN Len(pattern) - 1 ELSE Len(pattern)
        body    == SubSeq(pattern, first, last)
    IN  \E k \in 1..(Len(text) - Len(body) + 1) :
            /\ atStart => k = 1
            /\ atEnd => k + Len(body) - 1 = Len(text)
            /\ \A j \in 1..Len(body) : CharMatches(body[j], text[k + j - 1])

\* {field: {"$regex": pattern, "$options": "i"}}: only a text field can match
FieldMatches(doc, field, pattern) ==
    /\ field \in DOMAIN doc
    /\ doc[field].t = "str"
    /\ RegexSearch(pattern, doc[field].s)

\* a filter maps "$or" to a sequence of [field, regex] clauses and "category" to
\* a [regex] clause; every key present must hold
Matches(f, doc) ==
    /\ "$or" \in DOMAIN f =>
          \E i \in DOMAIN f["$or"] :
              FieldMatches(doc, f["$or"][i].field, f["$or"][i].regex)
    /\ "category" \in DOMAIN f => FieldMatches(doc, "category", f["category"].regex)

Min(a, b) == IF a < b THEN a ELSE b

\* get_documents("product", filt, limit): up to limit matching documents, in the
\* collection's order
get_documents(coll, f, limit) ==
    LET hits == SelectSeq(coll, LAMBDA d : Matches(f, d))
    IN  SubSeq(hits, 1, Min(limit, Len(hits)))

(***************************************************************************)
(* serialize_product and the ProductOut response model                     *)
(***************************************************************************)
\* str(x)
PyStr(v) ==
    CASE v.t = "null" -> Str(<<"N","o","n","e">>)
      [] v.t = "oid"  -> Str(Decimal(v.n))
      [] v.t = "str"  -> v
      [] OTHER        -> Str(<<"?">>)

\* float(x)
PyFloat(v) ==
    CASE v.t \in {"int", "float"} -> FloatValue(v.c)
      [] v.t = "bool"             -> FloatValue(IF v.b THEN 100 ELSE 0)
      [] v.t = "str"              -> Raise("ValueError")
      [] OTHER                    -> Raise("TypeError")

\* bool(x)
PyBool(v) ==
    CASE v.t = "bool"             -> v
      [] v.t \in {"int", "float"} -> BoolValue(v.c # 0)
      [] v.t = "str"              -> BoolValue(Len(v.s) > 0)
      [] v.t = "null"             -> BoolValue(FALSE)
      [] OTHER                    -> BoolValue(TRUE)

\* float(doc.get("price", 0)) (line 37)
SerializePrice(doc) == PyFloat(GetDefault(doc, "price", IntValue(0)))

\* a rating that takes price's zero default
SerializeRatingDefaultZero(doc) == PyFloat(GetDefault(doc, "rating", IntValue(0)))

\* float(doc.get("rating", 0)) if doc.get("rating") is not None else None (line 41)
SerializeRating(doc) ==
    IF Get(doc, "rating") # None
    THEN PyFloat(GetDefault(doc, "rating", IntValue(0)))
    ELSE None

serialize_product(doc) ==
    LET price  == SerializePrice(doc)
        rating == SerializeRating(doc)
    IN  IF IsRaise(price) THEN price
        ELSE IF IsRaise(rating) THEN rating
        ELSE [id          |-> PyStr(Get(doc, "_id")),
              title       |-> Get(doc, "title"),
              description |-> Get(doc, "description"),
              price       |-> price,
              category    |-> GetDefault(doc, "category", Str(<<>>)),
              in_stock    |-> PyBool(GetDefault(doc, "in_stock", BoolValue(TRUE))),
              image       |-> Get(doc, "image"),
              rating      |-> rating]

\* response_model=List[ProductOut]: the declared type of every field
ProductOut(item) ==
    /\ item.id.t = "str"
    /\ item.title.t = "str"
    /\ item.description.t \in {"str", "null"}
    /\ item.price.t \in {"float", "int"}
    /\ item.category.t = "str"
    /\ item.in_stock.t = "bool"
    /\ item.image.t \in {"str", "null"}
    /\ item.rating.t \in {"float", "int", "null"}

(***************************************************************************)
(* Catalog query: GET /api/products                                        *)
(***************************************************************************)
MinLimit == 1

MaxLimit == 100

DefaultLimit == 24

\* if q / if category: None and "" are falsy
Truthy(s) == s.t = "str" /\ Len(s.s) > 0

SearchClause(field, q) == [field |-> field, regex |-> q.s]

\* f"^{category}$"
CategoryPattern(category) == <<"^">> \o category.s \o <<"$">>

\* a filter whose category test is skipped when q is given
BuildFilterEither(q, category) ==
    IF Truthy(q)
    THEN "$or" :> <<SearchClause("title", q), SearchClause("description", q)>>
    ELSE IF Truthy(category)
    THEN "category" :> [regex |-> CategoryPattern(category)]
    ELSE <<>>

\* lines 164-172
BuildFilter(q, category) ==
    LET textPart == IF Truthy(q)
                    THEN "$or" :> <<SearchClause("title", q),
                                    SearchClause("description", q)>>
                    ELSE <<>>
        catPart  == IF Truthy(category)
                    THEN "category" :> [regex |-> CategoryPattern(category)]
                    ELSE <<>>
    IN  textPart @@ catPart

\* a listing that comes back in reverse
SerializeAllReversed(found) ==
    [i \in DOMAIN found |-> serialize_product(found[Len(found) + 1 - i])]

\* [serialize_product(d) for d in docs]
SerializeAll(found) == [i \in DOMAIN found |-> serialize_product(found[i])]

\* the response for the documents found: an exception in serialize_product or a
\* body that is no List[ProductOut] ends the request with status 500
Respond(found) ==
    LET body == SerializeAll(found)
    IN  IF \E i \in DOMAIN body : IsRaise(body[i])
        THEN [status |-> 500, detail |-> "Internal Server Error"]
        ELSE IF \E i \in DOMAIN body : ~ProductOut(body[i])
        THEN [status |-> 500, detail |-> "Internal Server Error"]
        ELSE [status |-> 200, body |-> body]

\* a handler that skips the check of the handle
StoreUnsetIgnored == FALSE

\* if db is None (line 161)
StoreUnset == db = "None"

list_products(q, category, limit) ==
    /\ ~req.sent
    /\ req' = [sent |-> TRUE, q |-> q, category |-> category, limit |-> limit]
    /\ IF limit < MinLimit \/ limit > MaxLimit
       THEN \* Query(ge=1, le=100) rejects the request before the handler runs
            /\ response' = [status |-> 422, detail |-> "limit out of range"]
            /\ filt' = <<>>
            /\ docs' = <<>>
            /\ getCalls' = 0
       ELSE IF StoreUnset
       THEN /\ response' = [status |-> 500, detail |-> "Database not available"]
            /\ filt' = <<>>
            /\ docs' = <<>>
            /\ getCalls' = 0
       ELSE LET f     == BuildFilter(q, category)
                found == get_documents(store, f, limit)
            IN  /\ filt' = f
                /\ docs' = found
                /\ getCalls' = 1
                /\ response' = Respond(found)
    /\ UNCHANGED <<db, store>>
    /\ UNCHANGED seederVars

(***************************************************************************)
(* Store contents and request parameters the model draws from              *)
(***************************************************************************)
\* the document the Seeder stores for seed item i, under identifier k
StoredSeed(i, k) ==
    LET p == sample_products[i]
    IN  ("_id" :> Oid(k)) @@ SeedRecord(ProductSchema(SchemaInput(p), TRUE), p)

\* documents written by other clients of the store
ShadeDoc ==
    [_id      |-> Oid(6),
     title    |-> Str(<<"L","a","m","p"," ","S","h","a","d","e">>),
     category |-> Str(<<"E","l","e","c","t","r","o","n","i","c","s"," ","&"," ","M","o","r","e">>)]

TravelDoc ==
    [_id         |-> Oid(7),
     title       |-> Str(<<"T","r","a","v","e","l"," ","B","a","c","k","p","a","c","k">>),
     description |-> None,
     price       |-> IntValue(-5),
     category    |-> Str(<<"H","o","m","e">>),
     in_stock    |-> BoolValue(FALSE),
     rating      |-> IntValue(4)]

BeltDoc ==
    [title       |-> Str(<<"B","e","l","t">>),
     description |-> Str(<<"L","e","a","t","h","e","r"," ","b","e","l","t"," ","w","i","t","h"," ","a"," ","c","l","a","m","p"," ","b","u","c","k","l","e">>),
     price       |-> FloatValue(1250),
     category    |-> Str(<<"a","c","c","e","s","s","o","r","i","e","s">>),
     rating      |-> None]

UntitledDoc ==
    [_id      |-> Oid(9),
     price    |-> FloatValue(300),
     category |-> Str(<<"H","o","m","e">>)]

UnpricedDoc ==
    [_id      |-> Oid(10),
     title    |-> Str(<<"M","y","s","t","e","r","y"," ","B","o","x">>),
     price    |-> None,
     category |-> Str(<<"H","o","m","e">>)]

PoolDocs ==
    {StoredSeed(1, 1), StoredSeed(3, 3),
     ShadeDoc, TravelDoc, BeltDoc, UntitledDoc, UnpricedDoc}

\* longest collection a catalog query starts from
MaxStore == 3

\* longest collection a Seeder run finds at startup
MaxPre == 1

\* sequences of distinct documents of pool, of length at most n
Collections(pool, n) ==
    UNION {{s \in [1..k -> pool] : \A i, j \in 1..k : s[i] = s[j] => i = j} : k \in 0..n}

QInputs ==
    {None, Str(<<>>), Str(<<"l","a","m","p">>), Str(<<"l",".","m","p">>)}

CategoryInputs ==
    {None, Str(<<>>), Str(<<"e","l","e","c","t","r","o","n","i","c","s">>),
     Str(<<"H","o","m","e">>), Str(<<"H",".","m","e">>)}

LimitInputs == {MinLimit - 1, MinLimit, DefaultLimit, MaxLimit + 1}

(***************************************************************************)
(* Specifications                                                          *)
(***************************************************************************)
SeederIdle ==
    /\ pc = [r \in Runs |-> "idle"]
    /\ idx = [r \in Runs |-> 1]
    /\ count = [r \in Runs |-> [state |-> "unset"]]
    /\ validated = [r \in Runs |-> <<>>]
    /\ submitted = [r \in Runs |-> <<>>]
    /\ skipped = [r \in Runs |-> {}]
    /\ inserted = [r \in Runs |-> 0]

NoRequest ==
    /\ req = [sent |-> FALSE]
    /\ filt = <<>>
    /\ docs = <<>>
    /\ getCalls = 0
    /\ response = [status |-> 0]

\* startups one after the other
Init ==
    /\ db \in {"None", "handle"}
    /\ store \in Collections({ShadeDoc, TravelDoc}, MaxPre)
    /\ SeederIdle
    /\ NoRequest

Next ==
    \/ \E r \in Runs, countFails \in BOOLEAN : SeqStart(r, countFails)
    \/ \E r \in Runs, accepts \in BOOLEAN, insertFails \in BOOLEAN :
           SeedItem(r, accepts, insertFails)

Spec == Init /\ [][Next]_vars

\* startups of several processes against one empty store, interleaved at the
\* store calls
InitOverlap ==
    /\ db \in {"None", "handle"}
    /\ store = <<>>
    /\ SeederIdle
    /\ NoRequest

NextOverlap ==
    \/ \E r \in Runs, countFails \in BOOLEAN : SeedStart(r, countFails)
    \/ \E r \in Runs, accepts \in BOOLEAN, insertFails \in BOOLEAN :
           SeedItem(r, accepts, insertFails)

SpecOverlap == InitOverlap /\ [][NextOverlap]_vars

\* a catalog query against a populated store.  list_products changes neither db
\* nor the store, so the answer to a request is the same whatever was asked
\* before it: a behaviour serves one request.
InitQuery ==
    /\ db \in {"None", "handle"}
    /\ store \in Collections(PoolDocs, MaxStore)
    /\ db = "None" => Len(store) <= 1
    /\ SeederIdle
    /\ NoRequest

NextQuery ==
    \E q \in QInputs, category \in CategoryInputs, limit \in LimitInputs :
        list_products(q, category, limit)

SpecQuery == InitQuery /\ [][NextQuery]_vars

(***************************************************************************)
(* Properties of the Seeder                                                *)
(***************************************************************************)
CountIs(r, n) == count[r].state = "read" /\ count[r].n = n

CountNonZero(r) == count[r].state = "read" /\ count[r].n > 0

InSeq(x, s) == \E i \in DOMAIN s : s[i] = x

AllSeeds == [i \in 1..NumSeeds |-> i]

\* the runs are the only writers: the store began empty iff it holds exactly what
\* the runs inserted
BeganEmpty == Len(store) = inserted[1] + inserted[2]

\* number of documents of coll that are seed item i (whatever their identifier)
Copies(coll, i) ==
    Cardinality({k \in DOMAIN coll :
                    [f \in DOMAIN coll[k] \ {"_id"} |-> coll[k][f]]
                        = SeedRecord(SchemaInput(sample_products[i]), sample_products[i])})

\* C1 as stated: on a store that begins empty, the first of two successive runs
\* inserts at most five records and the second inserts none, whatever the
\* per-item outcomes of the first.
C1_SecondRunNeverInserts ==
    (BeganEmpty /\ Finished(1) /\ Finished(2)) =>
        (inserted[1] <= NumSeeds /\ inserted[2] = 0)

\* C1 amended: on a store that begins empty, the first run inserts at most five
\* records, five less one per failing item; the second run inserts none whenever
\* the first inserted at least one, and at most five otherwise.
C1_SeedTwice ==
    BeganEmpty =>
        /\ inserted[1] <= NumSeeds
        /\ inserted[2] <= NumSeeds
        /\ (Finished(1) /\ CountIs(1, 0)) =>
               inserted[1] = NumSeeds - Cardinality(skipped[1])
        /\ inserted[1] >= 1 => inserted[2] = 0

C1_Witness ==
    /\ BeganEmpty
    /\ Finished(1) /\ Finished(2)
    /\ CountIs(1, 0)
    /\ skipped[1] = {2}
    /\ inserted[1] = NumSeeds - 1
    /\ CountIs(2, NumSeeds - 1)
    /\ inserted[2] = 0

\* C2: a run that reads a nonzero count returns at once: it calls
\* create_document zero times and its step leaves the collection as it was.
C2_NonEmptyNoOp ==
    [][\A r \in Runs :
          (pc[r] = "idle" /\ pc'[r] # "idle" /\ db = "handle" /\ Len(store) > 0
             /\ count'[r].state = "read")
          => (store' = store /\ Finished(r)' /\ submitted'[r] = <<>>
              /\ inserted'[r] = 0)]_vars

C2_Witness ==
    \E r \in Runs :
        /\ CountNonZero(r)
        /\ Finished(r)
        /\ submitted[r] = <<>>
        /\ \E k \in DOMAIN store : store[k] = TravelDoc

\* C3: a run on an empty store hands every seed item to the schema, in order,
\* whichever items fail; every item is either skipped or submitted for insertion,
\* the skipped ones alone are missing from the store, and the run never ends by
\* raising.
C3_FailuresSkipped ==
    \A r \in Runs :
        /\ pc[r] # "raised"
        /\ (Finished(r) /\ CountIs(r, 0)) =>
              /\ validated[r] = AllSeeds
              /\ \A i \in 1..NumSeeds : i \in skipped[r] \/ InSeq(i, submitted[r])
              /\ inserted[r] = NumSeeds - Cardinality(skipped[r])

C3_Witness ==
    \E r \in Runs :
        /\ Finished(r) /\ CountIs(r, 0)
        /\ skipped[r] = {1, 3}
        /\ submitted[r] = <<2, 3, 4, 5>>
        /\ inserted[r] = 3
        /\ Copies(store, 5) = 1

\* C10 as stated: after any interleaving of two runs against an initially empty
\* store, the store holds at most one copy of each seed item, at most five
\* records.
C10_NoDuplicates ==
    /\ Len(store) <= NumSeeds
    /\ \A i \in 1..NumSeeds : Copies(store, i) <= 1

\* C10 amended: the store holds at most one copy of each seed item unless both
\* runs read a count of zero; then each run inserts its own copies, at most two
\* of each item and ten records in all.
C10_DuplicatesOnlyOnRace ==
    /\ Len(store) <= NumSeeds * Cardinality(Runs)
    /\ \A i \in 1..NumSeeds : Copies(store, i) <= Cardinality(Runs)
    /\ ~(CountIs(1, 0) /\ CountIs(2, 0)) =>
          /\ Len(store) <= NumSeeds
          /\ \A i \in 1..NumSeeds : Copies(store, i) <= 1

C10_Witness ==
    /\ CountIs(1, 0) /\ CountIs(2, 0)
    /\ Finished(1) /\ Finished(2)
    /\ Len(store) = NumSeeds * Cardinality(Runs)
    /\ \A i \in 1..NumSeeds : Copies(store, i) = 2

(***************************************************************************)
(* Properties of the catalog query                                         *)
(***************************************************************************)
\* the handler ran: the request passed the limit check
Handled == req.sent /\ req.limit >= MinLimit /\ req.limit <= MaxLimit

Listed == Handled /\ response.status = 200

TextOf(doc, field) ==
    IF field \in DOMAIN doc /\ doc[field].t = "str" THEN doc[field].s ELSE <<>>

HasText(doc, field) == field \in DOMAIN doc /\ doc[field].t = "str"

\* the criteria of the prose, stated on a document
ContainsQ(doc, q) ==
    \/ HasText(doc, "title") /\ ContainsText(TextOf(doc, "title"), q.s)
    \/ HasText(doc, "description") /\ ContainsText(TextOf(doc, "description"), q.s)

CategoryEquals(doc, category) ==
    HasText(doc, "category") /\ EqualsText(TextOf(doc, "category"), category.s)

\* the criteria as patterns
QPattern(doc, q) ==
    FieldMatches(doc, "title", q.s) \/ FieldMatches(doc, "description", q.s)

CatPattern(doc, category) ==
    FieldMatches(doc, "category", <<"^">> \o category.s \o <<"$">>)

Accepted(coll, f) == SelectSeq(coll, LAMBDA d : Matches(f, d))

\* C4: with the handle unset, list_products answers 500 "Database not available"
\* whatever q, category and limit are, calls get_documents zero times and
\* returns no list.
C4_UnavailableStore ==
    (Handled /\ db = "None") =>
        /\ response = [status |-> 500, detail |-> "Database not available"]
        /\ getCalls = 0
        /\ docs = <<>>

C4_Witness ==
    /\ Handled /\ db = "None"
    /\ Len(store) = 1
    /\ Truthy(req.q) /\ Truthy(req.category)
    /\ response.status = 500

\* C5: a returned list is no longer than limit and is what get_documents
\* yielded, record for record and in the same order.
C5_LimitAndOrder ==
    Listed =>
        /\ Len(response.body) <= req.limit
        /\ Len(response.body) = Len(docs)
        /\ \A i \in DOMAIN docs :
              /\ response.body[i].id = PyStr(Get(docs[i], "_id"))
              /\ response.body[i].title = Get(docs[i], "title")
              /\ response.body[i].category = GetDefault(docs[i], "category", Str(<<>>))

C5_Witness ==
    /\ Listed
    /\ req.limit = MinLimit
    /\ Len(Accepted(store, filt)) = MaxStore
    /\ Len(response.body) = MinLimit
    /\ response.body[1].id = PyStr(Get(store[1], "_id"))

\* C6 as stated: for every non-empty category parameter the filter accepts a
\* record iff its category equals the parameter as a whole, case-insensitively.
C6_CategoryExact ==
    (Handled /\ getCalls = 1 /\ Truthy(req.category)) =>
        \A k \in DOMAIN store :
            FieldMatches(store[k], "category", filt["category"].regex)
                <=> CategoryEquals(store[k], req.category)

\* C7 as stated: the filter is the conjunction of the criteria present: with
\* non-empty q a record is eligible only if its title or its description
\* contains q as a case-insensitive substring; with q and category both present
\* a record must satisfy both; with neither the filter is empty and every record
\* is eligible.
C7_QIsSubstring ==
    (Handled /\ getCalls = 1) =>
        /\ \A k \in DOMAIN store :
              Matches(filt, store[k]) =>
                  /\ Truthy(req.q) => ContainsQ(store[k], req.q)
                  /\ Truthy(req.category) => CatPattern(store[k], req.category)
        /\ (~Truthy(req.q) /\ ~Truthy(req.category)) =>
              /\ DOMAIN filt = {}
              /\ docs = SubSeq(store, 1, Min(req.limit, Len(store)))

\* C7 amended: the filter is the conjunction of the criteria present.  q is
\* matched as a case-insensitive pattern against title or description, which for
\* a q without pattern metacharacters is the substring test; with q and
\* category both present a record must satisfy both; with neither the filter is
\* empty and every record is eligible.
C7_Conjunction ==
    (Handled /\ getCalls = 1) =>
        /\ \A k \in DOMAIN store :
              Matches(filt, store[k]) <=>
                  /\ Truthy(req.q) => QPattern(store[k], req.q)
                  /\ Truthy(req.category) => CatPattern(store[k], req.category)
        /\ (Truthy(req.q) /\ ~HasMetachar(req.q.s)) =>
              \A k \in DOMAIN store :
                  QPattern(store[k], req.q) <=> ContainsQ(store[k], req.q)
        /\ (~Truthy(req.q) /\ ~Truthy(req.category)) =>
              /\ DOMAIN filt = {}
              /\ docs = SubSeq(store, 1, Min(req.limit, Len(store)))

C7_Witness ==
    /\ Handled /\ getCalls = 1
    /\ req.q = Str(<<"l","a","m","p">>)
    /\ req.category = Str(<<"H","o","m","e">>)
    /\ store = <<ShadeDoc, TravelDoc, StoredSeed(3, 3)>>
    /\ docs = <<StoredSeed(3, 3)>>

\* C8: a record lacking rating serializes with rating null, a record lacking
\* price with price 0.0, and a numeric rating is emitted as that number.
C8_Defaults ==
    Listed =>
        \A i \in DOMAIN docs :
            /\ "rating" \notin DOMAIN docs[i] => response.body[i].rating = None
            /\ "price" \notin DOMAIN docs[i] => response.body[i].price = FloatValue(0)
            /\ ("rating" \in DOMAIN docs[i] /\ docs[i]["rating"].t \in {"int", "float"})
                  => response.body[i].rating = FloatValue(docs[i]["rating"].c)

C8_Witness ==
    /\ Listed
    /\ docs = <<ShadeDoc, TravelDoc>>
    /\ response.body[1].rating = None
    /\ response.body[1].price = FloatValue(0)
    /\ response.body[2].rating = FloatValue(400)

\* C9 as stated: every record of every response has a non-null identifier, a
\* non-null title and a price that is a non-negative number.
C9_ResponseInvariant ==
    Listed =>
        \A i \in DOMAIN response.body :
            /\ response.body[i].id # None
            /\ response.body[i].title # None
            /\ response.body[i].price.t = "float"
            /\ response.body[i].price.c >= 0

====
